---- MODULE Spec2Model ----
(***************************************************************************)
(* Auto-SIAC: the incremental, resumable scrape engine of src/app.py       *)
(* (process_list_incremental and its nested init_browser).                 *)
(*                                                                         *)
(* Python strings are modelled as sequences of one-character strings, so   *)
(* that strip(), endswith() and lower() are computed, not assumed.  A      *)
(* Python value is tagged with its type: Str(s) is a str, Tup(a, b) a      *)
(* 2-tuple, None the absent value.  List indices are 0-based in the code   *)
(* and 1-based here: results[i] of the code is results[i + 1].             *)
(***************************************************************************)
EXTENDS Integers, Sequences, FiniteSets, TLC

\* ---------------------------------------------------------------- bounds
MaxItems == 2
MaxBatch == 2
MaxRefresh == 2
MaxRetries == 2
MaxRows == 2

\* ---------------------------------------------------------------- values
None == [ty |-> "none"]
Str(s) == [ty |-> "str", v |-> s]
Tup(a, b) == [ty |-> "tuple", v |-> <<a, b>>]

\* "..." : the placeholder of an unprocessed entry
DOTS == <<".", ".", ".">>
\* "N/A"
NA == <<"N", "/", "A">>
\* "nan"
NAN == <<"n", "a", "n">>
\* the ".0" float-formatting suffix
DOT0 == <<".", "0">>
\* check_siac_on_page's "REGISTADO" marker (a definitive outcome; the leading
\* emoji is written "+")
REGISTADO == <<"+", " ", "R">>
\* check_siac_on_page's "Erro" marker (the leading warning sign is written "!")
ERRO == <<"!", " ", "E">>
\* check_siac_on_page's "Desconhecido" marker (the leading sign is written "?")
DESCONHECIDO == <<"?", " ", "D">>

\* the other results of check_siac_on_page: "DESAPARECIDO" (the flag is
\* written "F") and "SEM REGISTO" (the cross is written "x")
DESAPARECIDO == <<"F", " ", "D">>
SEM_REGISTO == <<"x", " ", "S">>
\* check_olx_km: "ERR_MODERATED", "ERR_INACTIVE", "ERR_NOT_FOUND",
\* "Erro Conexao" and a mileage read off the page
ERR_MODERATED == <<"E", "M">>
ERR_INACTIVE == <<"E", "I">>
ERR_NOT_FOUND == <<"E", "N">>
ERRO_CONEXAO == <<"!", " ", "C">>
KM == <<"9", " ", "k", "m">>
\* check_olx_location: "Localizacao" (unknown), "Conexao" (fault) and a
\* location read off the page
LOCALIZACAO == <<"?", " ", "L">>
CONEXAO == <<"!", " ", "X">>
LOC == <<"L", "x">>
\* check_rnt_rnal_only: "Sem Dados", "Nao Encontrado", "Erro RNAL", and the
\* address read off the detail page or the result grid
SEM_DADOS == <<"?", " ", "S">>
NAO_ENCONTRADO == <<"x", " ", "N">>
ERRO_RNAL == <<"!", " ", "R">>
MORADA == <<"M", "x">>
GRID == <<"G", " ", "(", "x", ")">>

\* ---------------------------------------------------------------- str methods
Whitespace == {" "}

RECURSIVE LStrip(_)
LStrip(s) ==
  IF s # <<>> /\ Head(s) \in Whitespace THEN LStrip(Tail(s)) ELSE s

RECURSIVE RStrip(_)
RStrip(s) ==
  IF s # <<>> /\ s[Len(s)] \in Whitespace
    THEN RStrip(SubSeq(s, 1, Len(s) - 1))
    ELSE s

\* str.strip()
Strip(s) == RStrip(LStrip(s))

\* str.endswith(suf)
EndsWith(s, suf) ==
  /\ Len(s) >= Len(suf)
  /\ SubSeq(s, Len(s) - Len(suf) + 1, Len(s)) = suf

LowerChar(c) ==
  CASE c = "N" -> "n"
    [] c = "A" -> "a"
    [] OTHER -> c

\* str.lower()
Lower(s) == [k \in 1..Len(s) |-> LowerChar(s[k])]

\* ---------------------------------------------------------------- skip rule
\* has_result of the loop: isinstance(results[i], str) and
\* results[i].strip() not in ["", "..."]
HasResult_RetryErrors(r) ==
  /\ r.ty = "str"
  /\ Strip(r.v) \notin {<<>>, DOTS}
  /\ Head(Strip(r.v)) \notin {"!", "?"}

HasResult_AnyString(r) ==
  /\ r.ty = "str"
  /\ Strip(r.v) # <<>>

HasResult(r) ==
  /\ r.ty = "str"
  /\ Strip(r.v) \notin {<<>>, DOTS}

\* ---------------------------------------------------------------- cleaning
\* check_val = val[0] if isinstance(val, (tuple, list)) else val
CheckVal(val) == IF val.ty = "tuple" THEN val.v[1] ELSE val

\* cleaned: a tuple is passed on as it is; a scalar is stripped and loses one
\* trailing ".0"
Cleaned(val) ==
  IF val.ty = "tuple" THEN val
  ELSE LET raw_str == Strip(val.v)
       IN  IF EndsWith(raw_str, DOT0)
             THEN Str(SubSeq(raw_str, 1, Len(raw_str) - 2))
             ELSE Str(raw_str)

\* not str(check_val).strip() or str(check_val).lower() == "nan"
IsBlank(val) ==
  LET s == CheckVal(val).v
  IN  Strip(s) = <<>> \/ Lower(s) = NAN

\* ---------------------------------------------------------------- inputs
List(q) == [ty |-> "list", v |-> q]

\* scalar items as read from a sheet column: an identifier and the "nan" blank
ItemVals == {Str(<<"1">>), Str(NAN)}

\* what an entry of existing_results can hold: the placeholder, the empty
\* cell, the markers the extractors return, and the 2-tuple the multi-field
\* checkers (al_checker, cars_checker) return
TupleResult == Tup(Str(<<"L">>), Str(<<"D">>))
ResVals == {Str(DOTS), Str(<<>>), Str(REGISTADO), Str(ERRO), TupleResult}

SeqsOf(S, n) == [1..n -> S]

\* existing_results for n items: absent, or a list one shorter than, as long
\* as, or (with one more placeholder) one longer than items
ExistingFor(n) ==
  {None}
    \cup {List(q) : q \in UNION {SeqsOf(ResVals, m) : m \in {n - 1, n} \cap Nat}}
    \cup {List(Append(q, Str(DOTS))) : q \in SeqsOf(ResVals, n)}

\* Scenario B of the specification: items A, B, C, D resumed from
\* [Success("x"), Unprocessed, Unprocessed, TransientError], and the same
\* with UnknownOutcome as the last entry
ScenarioBItems == <<Str(<<"A">>), Str(<<"B">>), Str(<<"C">>), Str(<<"D">>)>>
ScenarioBExisting == List(<<Str(<<"x">>), Str(DOTS), Str(DOTS), Str(ERRO)>>)
ScenarioBUnknown ==
  List(<<Str(<<"x">>), Str(DOTS), Str(DOTS), Str(DESCONHECIDO)>>)

\* Scenario A of the specification: items "111", "nan", "222", a fresh run
ScenarioAItems ==
  <<Str(<<"1", "1", "1">>), Str(NAN), Str(<<"2", "2", "2">>)>>

\* Scenario C of the specification: five items, a fresh run
ScenarioCItems ==
  <<Str(<<"1">>), Str(<<"2">>), Str(<<"3">>), Str(<<"4">>), Str(<<"5">>)>>

\* items as a sheet column or a zip of two columns can hold them: a number
\* formatted as a float, a bare ".0", a padded or capitalised "nan", and the
\* 2-tuples of the multi-field runs, with and without a first field
RawItemVals ==
  {Str(<<"1", ".", "0">>), Str(DOT0), Str(<<" ", "n", "a", "n", " ">>),
   Str(<<"N", "a", "N">>), Tup(Str(<<"a">>), Str(<<"b">>)),
   Tup(Str(<<>>), Str(<<"b">>))}

\* the item sequences and, for each, the existing_results of a call
ResumeItemSeqs == UNION {SeqsOf(ItemVals, n) : n \in 0..MaxItems}

ItemSeqs ==
  ResumeItemSeqs
    \cup {ScenarioAItems, ScenarioBItems, ScenarioCItems}
    \cup UNION {SeqsOf(RawItemVals, n) : n \in 1..MaxItems}

\* existing_results for items some of which are blank: absent, or a list as
\* long as items of placeholders and results
ExistingForBlanks(n) ==
  {None} \cup {List(q) : q \in SeqsOf({Str(DOTS), Str(REGISTADO)}, n)}

\* the five items resumed with results at indices 1 and 3, and with results
\* at indices 2 and 4
ScenarioCOddDone ==
  List(<<Str(DOTS), Str(<<"x">>), Str(DOTS), Str(<<"x">>), Str(DOTS)>>)
ScenarioCEvenDone ==
  List(<<Str(DOTS), Str(DOTS), Str(<<"x">>), Str(DOTS), Str(<<"x">>)>>)

ExistingOf(it) ==
  IF it = ScenarioBItems
    THEN {ScenarioBExisting, ScenarioBUnknown}
    ELSE IF it = ScenarioCItems
      THEN {None, ScenarioCOddDone, ScenarioCEvenDone}
    ELSE IF it \notin ResumeItemSeqs THEN {None}
    ELSE IF \A k \in 1..Len(it) : ~IsBlank(it[k])
      THEN ExistingFor(Len(it))
      ELSE ExistingForBlanks(Len(it))

\* ---------------------------------------------------------------- state
VARIABLES
  args,      \* the arguments of the call (never change)
  pc,        \* position in process_list_incremental
  ret,       \* where init_browser returns to: "loop" or "clean"
  results,   \* the results list
  i,         \* the loop index (0-based, as in the code)
  res,       \* the local res
  cleaned,   \* the local cleaned: what checker_func is called with
  browser, context, page,   \* the nonlocals: "None", "open" or "closed"
  nOpen,     \* browser processes launched by the run and still running
  diedAt,    \* index during whose checker call the browser died, or -1
  calls,     \* calls[k]: checker_func calls made for item k - 1
  flushes,   \* callback invocations so far
  sinkArg,   \* the list passed at the latest callback invocation, or None
  finalFlush,\* the callback was invoked at line 561
  inLoop,    \* the for loop was entered
  progress,  \* numerator of the latest progress_bar.progress call
  exc,       \* the exception that is propagating or propagated, or "none"
  writes,    \* the indices (0-based) assigned by line 557, in order
  recycledAt,\* the indices at which lines 535-539 restarted the browser
  tries,     \* launch attempts of the init_browser call in progress
  installs,  \* install steps of the init_browser call in progress
  userAgent, \* the context of the current browser has the fixed user agent
  navs,      \* navigations to init_url made on the current browser
  active,    \* awaited checker_func / callback calls not yet completed
  pending,   \* assignments of line 557 since the latest callback call
  sessionCalls, \* checker_func calls made on the current browser
  \* one call of an extractor (check_siac_on_page, check_olx_km,
  \* check_olx_location, check_rnt_rnal_only)
  fn,        \* the extractor called ("none": no call)
  ident,     \* its microchip / ad_id / reg_id argument
  retries,   \* its retries argument
  attempt,   \* the loop variable of "for attempt in range(retries + 1)"
  xpc,       \* position in the extractor
  outcomes,  \* what each attempt made so far met: a page, or a fault
  rnalRes,   \* the local res of check_rnt_rnal_only
  xret,      \* the value the extractor returned
  \* one tab's run on its worksheet: read the seed, process, flush, read again
  sink,      \* the callback of the tab ("none": no tab is followed)
  sheet,     \* the worksheet: column letter -> cells of rows 2, 3, ...
  sheet0,    \* the worksheet as the run found it
  seed,      \* existing_results as last built from the worksheet
  seed0,     \* existing_results the run started from
  upto,      \* how many indices the run had passed when it flushed
  store,     \* the results list handed to the callback
  spc,       \* position in the tab's run
  \* one call of batch_clear_rows(ws, rows, condition_func)
  data,      \* its rows argument: the header row and the data rows
  ws,        \* the rows the worksheet holds
  new_rows,  \* the local new_rows
  deleted_count, \* the local deleted_count
  wsWrites,  \* the ws.clear / ws.update calls made
  bpc,       \* position in batch_clear_rows
  bret,      \* the value it returned
  \* one run of main(excel_file) of main.py
  microchips, \* the first column of the input file
  chipIdx,   \* how many microchips the loop has passed
  cliResults, \* the local results of main
  cliBrowser, \* the browser launched by main
  cliPage,   \* the page opened by the check_siac call in progress
  outFile,   \* the 'Resultado SIAC' column written to the file (None: not written)
  cpc        \* position in main / check_siac

\* the variables of an extractor call, and of a sink call
xvars == <<fn, ident, retries, attempt, xpc, outcomes, rnalRes, xret>>

svars == <<sink, sheet, sheet0, seed, seed0, upto, store, spc>>

\* the variables of a batch_clear_rows call, and of a run of main.py
bvars == <<data, ws, new_rows, deleted_count, wsWrites, bpc, bret>>

cvars ==
  <<microchips, chipIdx, cliResults, cliBrowser, cliPage, outFile, cpc>>

\* the variables of process_list_incremental
mvars ==
  <<args, pc, ret, results, i, res, cleaned, browser, context, page, nOpen, diedAt,
    calls, flushes, sinkArg, finalFlush, inLoop, progress, exc, writes,
    recycledAt, tries, installs, userAgent, navs, active, pending,
    sessionCalls>>

vars == <<mvars, xvars, svars, bvars, cvars>>

\* no extractor call is being followed
ExtractorIdle ==
  /\ fn = "none"
  /\ ident = None
  /\ retries = 0
  /\ attempt = 0
  /\ xpc = "idle"
  /\ outcomes = <<>>
  /\ rnalRes = None
  /\ xret = None

\* no batch_clear_rows call is being followed
ClearIdle ==
  /\ data = <<>>
  /\ ws = <<>>
  /\ new_rows = <<>>
  /\ deleted_count = 0
  /\ wsWrites = 0
  /\ bpc = "idle"
  /\ bret = -1

\* no run of main.py is being followed
CliIdle ==
  /\ microchips = <<>>
  /\ chipIdx = 0
  /\ cliResults = <<>>
  /\ cliBrowser = "None"
  /\ cliPage = None
  /\ outFile = None
  /\ cpc = "idle"

\* no tab run is being followed
SinkIdle ==
  /\ sink = "none"
  /\ sheet = <<>>
  /\ sheet0 = <<>>
  /\ seed = <<>>
  /\ seed0 = <<>>
  /\ upto = 0
  /\ store = <<>>
  /\ spc = "idle"

total == Len(args.items)

Truthy(x) == x.ty = "list" /\ x.v # <<>>

\* the locals of process_list_incremental and the history kept of a run,
\* before its first statement
Locals ==
  /\ ret = "loop"
  /\ results = <<>>
  /\ i = 0
  /\ res = None
  /\ cleaned = None
  /\ browser = "None" /\ context = "None" /\ page = "None"
  /\ nOpen = 0
  /\ diedAt = -1
  /\ calls = [k \in 1..Len(args.items) |-> 0]
  /\ flushes = 0
  /\ sinkArg = None
  /\ finalFlush = FALSE
  /\ inLoop = FALSE
  /\ progress = 0
  /\ exc = "none"
  /\ writes = <<>>
  /\ recycledAt = {}
  /\ tries = 0
  /\ installs = 0
  /\ userAgent = FALSE
  /\ navs = 0
  /\ active = 0
  /\ pending = 0
  /\ sessionCalls = 0

\* no call of process_list_incremental is being followed
OrchestratorIdle ==
  /\ args = [items |-> <<>>, existing_results |-> None, callback |-> FALSE,
             batch_size |-> 1, refresh_every |-> 1, init_url |-> FALSE]
  /\ pc = "idle"
  /\ Locals

Init ==
  /\ \E it \in ItemSeqs, cb \in BOOLEAN, bs \in 1..MaxBatch,
        re \in 1..MaxRefresh, iu \in BOOLEAN :
       \E ex \in ExistingOf(it) :
         args = [items |-> it, existing_results |-> ex, callback |-> cb,
                 batch_size |-> bs, refresh_every |-> re, init_url |-> iu]
  /\ pc = "start"
  /\ Locals
  /\ ExtractorIdle
  /\ SinkIdle
  /\ ClearIdle
  /\ CliIdle

\* ---------------------------------------------------------------- actions
\* line 508, and entering "async with async_playwright() as p" (512-513),
\* up to the first call of init_browser (525)
Start ==
  /\ pc = "start"
  /\ results' = IF Truthy(args.existing_results)
                  THEN args.existing_results.v
                  ELSE [k \in 1..total |-> Str(DOTS)]
  /\ ret' = "loop"
  /\ pc' = "ib_close"
  /\ UNCHANGED <<xvars, svars, bvars, cvars, args, pending, sessionCalls, cleaned, i, res, browser, context, page, nOpen,
                 diedAt, calls, flushes, sinkArg, finalFlush, inLoop,
                 progress, exc, writes, recycledAt, tries, installs,
                 userAgent, navs, active>>

\* the three close calls left out
CloseBrowser_Skipped == UNCHANGED <<nOpen, browser, context, page>>

\* browser.close(): closes the browser with its contexts and pages; closing
\* a browser that is already closed does nothing
CloseBrowser ==
  /\ nOpen' = IF browser = "open" THEN nOpen - 1 ELSE nOpen
  /\ browser' = IF browser = "None" THEN "None" ELSE "closed"
  /\ context' = IF context = "None" THEN "None" ELSE "closed"
  /\ page' = IF page = "None" THEN "None" ELSE "closed"

\* init_browser, line 516: if browser: await browser.close()
IBClose ==
  /\ pc = "ib_close"
  /\ CloseBrowser
  /\ pc' = "ib_launch"
  /\ UNCHANGED <<xvars, svars, bvars, cvars, args, pending, sessionCalls, cleaned, ret, results, i, res, diedAt, calls, flushes,
                 sinkArg, finalFlush, inLoop, progress, exc, writes,
                 recycledAt, tries, installs, userAgent, navs, active>>

\* launch attempts init_browser makes (lines 517, 520): one when the first
\* launch succeeds, else the retry after the install as well
LaunchTries_RetryTwice(outcome) ==
  CASE outcome = "ok" -> 1
    [] outcome = "retry_ok" -> 2
    [] OTHER -> 3

LaunchTries(outcome) == IF outcome = "ok" THEN 1 ELSE 2

\* runs of "playwright install chromium" (line 519): one after a failed
\* first launch
InstallRuns(outcome) == IF outcome = "ok" THEN 0 ELSE 1

\* init_browser, lines 517-520: launch; when it fails, install and launch
\* once more, and that second failure is not caught
IBLaunch ==
  /\ pc = "ib_launch"
  /\ \E outcome \in {"ok", "retry_ok", "fail"} :
       /\ tries' = LaunchTries(outcome)
       /\ installs' = InstallRuns(outcome)
       /\ IF outcome = "fail"
            THEN /\ exc' = "LaunchError"
                 /\ pc' = "raised"
                 /\ UNCHANGED <<browser, nOpen, diedAt, userAgent, navs,
                                sessionCalls>>
            ELSE /\ browser' = "open"
                 /\ sessionCalls' = 0
                 /\ nOpen' = nOpen + 1
                 /\ diedAt' = -1
                 /\ userAgent' = FALSE
                 /\ navs' = 0
                 /\ pc' = "ib_page"
                 /\ exc' = exc
  /\ UNCHANGED <<xvars, svars, bvars, cvars, args, pending, cleaned, ret, results, i, res, context, page,
                 calls, flushes, sinkArg, finalFlush, inLoop, progress, writes,
                 recycledAt, active>>

\* line 523: "if init_url:" - the navigation is made in every init_browser
\* call, the first one (r = "loop") and the restarts (r = "clean") alike
Navigates_FirstOnly(url, r) == url /\ r = "loop"

Navigates(url, r) == url

\* init_browser, lines 521-523: new context with the user agent, new page,
\* and the navigation to init_url when one is given (it may raise)
IBPage ==
  /\ pc = "ib_page"
  /\ context' = "open"
  /\ userAgent' = TRUE
  /\ page' = "open"
  /\ tries' = 0
  /\ installs' = 0
  /\ \E navOk \in BOOLEAN :
       IF Navigates(args.init_url, ret) /\ ~navOk
         THEN exc' = "NavError" /\ pc' = "raised" /\ navs' = navs
         ELSE /\ exc' = exc
              /\ pc' = ret
              /\ navs' = IF Navigates(args.init_url, ret) THEN navs + 1 ELSE navs
  /\ UNCHANGED <<xvars, svars, bvars, cvars, args, pending, sessionCalls, cleaned, ret, results, i, res, browser, nOpen, diedAt,
                 calls, flushes, sinkArg, finalFlush, inLoop, progress,
                 writes, recycledAt, active>>

\* the numerator of the fraction lines 531 and 558 report for index k
ProgressAt_Index(k) == k

ProgressAt(k) == k + 1

\* line 534: i > 0 and i % refresh_every == 0
RefreshDue_AtZero(k, every) == k % every = 0

RefreshDue(k, every) == k > 0 /\ k % every = 0

\* lines 527-539: the head of one iteration.  results[i] is read before
\* "i < len(results)" is tested, so an index past the end of results raises
\* IndexError.  An entry that has a result is skipped; otherwise the browser
\* is closed for a restart when i > 0 and i % refresh_every == 0.
LoopHead ==
  /\ pc = "loop"
  /\ inLoop' = TRUE
  /\ IF i >= total
       THEN /\ pc' = "final"
            /\ UNCHANGED <<i, progress, exc, browser, context, page, nOpen,
                           ret, recycledAt>>
       ELSE IF i + 1 > Len(results)
         THEN /\ exc' = "IndexError"
              /\ pc' = "raised"
              /\ UNCHANGED <<i, progress, browser, context, page, nOpen, ret,
                             recycledAt>>
         ELSE IF HasResult(results[i + 1])
           THEN /\ progress' = ProgressAt(i)
                /\ i' = i + 1
                /\ pc' = "loop"
                /\ UNCHANGED <<exc, browser, context, page, nOpen, ret,
                               recycledAt>>
           ELSE IF RefreshDue(i, args.refresh_every)
             THEN /\ CloseBrowser
                  /\ recycledAt' = recycledAt \cup {i}
                  /\ ret' = "clean"
                  /\ pc' = "ib_close"
                  /\ UNCHANGED <<i, progress, exc>>
             ELSE /\ pc' = "clean"
                  /\ UNCHANGED <<i, progress, exc, browser, context, page,
                                 nOpen, ret, recycledAt>>
  /\ UNCHANGED <<xvars, svars, bvars, cvars, args, pending, sessionCalls, cleaned, results, res, diedAt, calls, flushes,
                 sinkArg, finalFlush, writes, tries, installs, userAgent,
                 navs, active>>

\* lines 541-555: a blank item gets "N/A" without a call; any other item is
\* handed, cleaned, to checker_func
Clean ==
  /\ pc = "clean"
  /\ cleaned' = Cleaned(args.items[i + 1])
  /\ IF IsBlank(args.items[i + 1])
       THEN /\ res' = Str(NA)
            /\ pc' = "store"
            /\ calls' = calls
            /\ active' = active
            /\ sessionCalls' = sessionCalls
       ELSE /\ res' = None
            /\ pc' = "checking"
            /\ calls' = [calls EXCEPT ![i + 1] = @ + 1]
            /\ active' = active + 1
            /\ sessionCalls' = sessionCalls + 1
  /\ UNCHANGED <<xvars, svars, bvars, cvars, args, pending, ret, results, i, browser, context, page, nOpen,
                 diedAt, flushes, sinkArg, finalFlush, inLoop, progress, exc,
                 writes, recycledAt, tries, installs, userAgent, navs>>

\* what checker_func can return: a marker string or a 2-tuple
CheckerReturns == {Str(REGISTADO), Str(ERRO), TupleResult}

\* the browser process dies while checker_func is running
BrowserDies ==
  /\ pc = "checking"
  /\ browser = "open"
  /\ diedAt = -1
  /\ diedAt' = i
  /\ nOpen' = nOpen - 1
  /\ browser' = "closed" /\ context' = "closed" /\ page' = "closed"
  /\ UNCHANGED <<xvars, svars, bvars, cvars, args, pending, sessionCalls, cleaned, pc, ret, results, i, res, calls, flushes,
                 sinkArg, finalFlush, inLoop, progress, exc, writes,
                 recycledAt, tries, installs, userAgent, navs, active>>

\* line 555: checker_func returns; on a dead browser the extractors of this
\* file can only return their error marker (their bare except)
CheckerReturn ==
  /\ pc = "checking"
  /\ \E r \in CheckerReturns :
       /\ browser = "open" \/ r = Str(ERRO)
       /\ res' = r
  /\ active' = active - 1
  /\ pc' = "store"
  /\ UNCHANGED <<xvars, svars, bvars, cvars, args, pending, sessionCalls, cleaned, ret, results, i, browser, context, page,
                 nOpen, diedAt, calls, flushes, sinkArg, finalFlush, inLoop,
                 progress, exc, writes, recycledAt, tries, installs,
                 userAgent, navs>>

\* line 555: checker_func raises; nothing in the loop catches it
CheckerRaise ==
  /\ pc = "checking"
  /\ exc' = "CheckerError"
  /\ active' = active - 1
  /\ pc' = "raised"
  /\ UNCHANGED <<xvars, svars, bvars, cvars, args, pending, sessionCalls, cleaned, ret, results, i, res, browser, context, page,
                 nOpen, diedAt, calls, flushes, sinkArg, finalFlush, inLoop,
                 progress, writes, recycledAt, tries, installs, userAgent,
                 navs>>

\* line 557: the entry "results[i] = res" assigns (1-based here)
StoreIndex_Previous(k) == IF k > 0 THEN k ELSE 1

StoreIndex(k) == k + 1

\* line 559: (i + 1) % batch_size == 0
FlushDue_BeforeItem(k, size) == k % size = 0

FlushDue(k, size) == (k + 1) % size = 0

\* lines 557-559: store the result, report progress, and decide on a flush
Store ==
  /\ pc = "store"
  /\ results' = [results EXCEPT ![StoreIndex(i)] = res]
  /\ writes' = Append(writes, i)
  /\ pending' = pending + 1
  /\ progress' = ProgressAt(i)
  /\ IF args.callback /\ FlushDue(i, args.batch_size)
       THEN pc' = "flush" /\ i' = i
       ELSE pc' = "loop" /\ i' = i + 1
  /\ UNCHANGED <<xvars, svars, bvars, cvars, args, sessionCalls, cleaned, ret, res, browser, context, page,
                 nOpen, diedAt, calls, flushes, sinkArg, finalFlush, inLoop, exc,
                 recycledAt, tries, installs, userAgent, navs, active>>

\* line 559 with the await dropped: the callback is started and the loop
\* goes on without waiting for it
Flush_NotAwaited ==
  /\ pc = "flush"
  /\ flushes' = flushes + 1
  /\ sinkArg' = List(results)
  /\ active' = active + 1
  /\ pending' = 0
  /\ pc' = "loop"
  /\ i' = i + 1
  /\ UNCHANGED <<xvars, svars, bvars, cvars, args, sessionCalls, cleaned, ret, results, res, browser, context, page,
                 nOpen, diedAt, calls, finalFlush, inLoop, progress, exc,
                 writes, recycledAt, tries, installs, userAgent, navs>>

\* line 559: await callback(results) - the callback is called with the list
\* and the loop waits for it
Flush ==
  /\ pc = "flush"
  /\ flushes' = flushes + 1
  /\ sinkArg' = List(results)
  /\ active' = active + 1
  /\ pending' = 0
  /\ pc' = "flushing"
  /\ UNCHANGED <<xvars, svars, bvars, cvars, args, sessionCalls, cleaned, ret, results, i, res, browser, context, page,
                 nOpen, diedAt, calls, finalFlush, inLoop, progress, exc,
                 writes, recycledAt, tries, installs, userAgent, navs>>

\* line 561: if callback: await callback(results)
FinalFlush ==
  /\ pc = "final"
  /\ IF args.callback
       THEN /\ flushes' = flushes + 1
            /\ sinkArg' = List(results)
            /\ finalFlush' = TRUE
            /\ active' = active + 1
            /\ pending' = 0
            /\ pc' = "flushing"
       ELSE /\ pc' = "close"
            /\ UNCHANGED <<flushes, sinkArg, finalFlush, active, pending>>
  /\ UNCHANGED <<xvars, svars, bvars, cvars, args, sessionCalls, cleaned, ret, results, i, res, browser, context, page,
                 nOpen, diedAt, calls, inLoop, progress, exc, writes,
                 recycledAt, tries, installs, userAgent, navs>>

\* lines 559 and 561: the awaited callback returns, or raises - and an
\* exception of the callback is not caught
FlushReturn ==
  /\ pc = "flushing"
  /\ active' = active - 1
  /\ \E sinkOk \in BOOLEAN :
       IF sinkOk
         THEN /\ exc' = exc
              /\ IF finalFlush
                   THEN pc' = "close" /\ i' = i
                   ELSE pc' = "loop" /\ i' = i + 1
         ELSE pc' = "raised" /\ i' = i /\ exc' = "SinkError"
  /\ UNCHANGED <<xvars, svars, bvars, cvars, args, pending, sessionCalls, cleaned, ret, results, res, browser, context, page,
                 nOpen, diedAt, calls, flushes, sinkArg, finalFlush, inLoop,
                 progress, writes, recycledAt, tries, installs, userAgent,
                 navs>>

\* line 562: if browser: await browser.close()
Close ==
  /\ pc = "close"
  /\ CloseBrowser
  /\ pc' = "exit"
  /\ UNCHANGED <<xvars, svars, bvars, cvars, args, pending, sessionCalls, cleaned, ret, results, i, res, diedAt, calls, flushes,
                 sinkArg, finalFlush, inLoop, progress, exc, writes,
                 recycledAt, tries, installs, userAgent, navs, active>>

\* what is left running once the Playwright driver has been stopped: the
\* driver takes the browsers it launched down with it
StopDriver_Leak(n) == n

StopDriver(n) == 0

\* leaving "async with async_playwright() as p" (line 512), on the return of
\* line 563 or with an exception propagating: the driver is stopped
ExitWith ==
  /\ pc \in {"exit", "raised"}
  /\ nOpen' = StopDriver(nOpen)
  /\ browser' = IF browser = "None" THEN "None" ELSE "closed"
  /\ context' = IF context = "None" THEN "None" ELSE "closed"
  /\ page' = IF page = "None" THEN "None" ELSE "closed"
  /\ pc' = IF pc = "exit" THEN "returned" ELSE "aborted"
  /\ UNCHANGED <<xvars, svars, bvars, cvars, args, pending, sessionCalls, cleaned, ret, results, i, res, diedAt, calls, flushes,
                 sinkArg, finalFlush, inLoop, progress, exc, writes,
                 recycledAt, tries, installs, userAgent, navs, active>>

Next ==
  \/ Start
  \/ IBClose
  \/ IBLaunch
  \/ IBPage
  \/ LoopHead
  \/ Clean
  \/ BrowserDies
  \/ CheckerReturn
  \/ CheckerRaise
  \/ Store
  \/ Flush
  \/ FinalFlush
  \/ FlushReturn
  \/ Close
  \/ ExitWith

Spec == Init /\ [][Next]_vars

\* ================================================================ extractors
\* The page texts of lines 35-37, as sequences of words: the "missing" text
\* begins with the "registered" text.
SIAC_TEXT_REGISTERED == <<"Animal", "com", "registo", "no", "SIAC">>
SIAC_TEXT_NOT_REGISTERED == <<"Animal", "sem", "registo">>
SIAC_TEXT_MISSING ==
  SIAC_TEXT_REGISTERED \o <<"e", "que", "se", "encontra", "desaparecido">>

\* sub in s
Contains(sub, s) ==
  \E k \in 0..(Len(s) - Len(sub)) : SubSeq(s, k + 1, k + Len(sub)) = sub

\* what page.content() of the SIAC site can hold after a search
SiacContents ==
  { <<>>,
    <<"Animal">>,
    SIAC_TEXT_REGISTERED,
    SIAC_TEXT_NOT_REGISTERED,
    SIAC_TEXT_MISSING,
    <<"Resultado">> \o SIAC_TEXT_MISSING \o <<"Fim">>,
    SIAC_TEXT_REGISTERED \o <<"e", "vacinado">>,
    SIAC_TEXT_NOT_REGISTERED \o SIAC_TEXT_MISSING,
    SIAC_TEXT_NOT_REGISTERED \o SIAC_TEXT_REGISTERED }

\* what a Playwright call inside an attempt can raise
Faults == {"TimeoutError", "TargetClosedError"}

Fault(e) == [ty |-> "fault", e |-> e]

\* what one attempt meets: a fault in one of its page calls, or a page
SiacOutcomes ==
  {Fault(e) : e \in Faults}
    \cup {[ty |-> "page", content |-> c] : c \in SiacContents}

\* the phrases check_olx_km looks for in the lowered content: "moderated"
\* (lines 335), "inactive" (340) and "removed" (342)
KmOutcomes ==
  {Fault(e) : e \in Faults}
    \cup {[ty |-> "page", km_val |-> k, content |-> c] :
            k \in {None, Str(KM)},
            c \in {{}, {"moderated"}, {"inactive"}, {"removed"},
                   {"moderated", "removed"}}}

LocationOutcomes ==
  {Fault(e) : e \in Faults}
    \cup {[ty |-> "page", location |-> l] : l \in {None, Str(LOC)}}

RnalOutcomes ==
  {Fault(e) : e \in Faults}
    \cup {[ty |-> "page", details |-> d, grid_res |-> g, content |-> c] :
            d \in {None, Str(MORADA)}, g \in {None, Str(GRID)},
            c \in {{}, {"nao foram encontrados"}}}

\* lines 271-274, with the registered text tested first
SiacClassify_RegisteredFirst(content) ==
  IF Contains(SIAC_TEXT_REGISTERED, content) THEN Str(REGISTADO)
  ELSE IF Contains(SIAC_TEXT_MISSING, content) THEN Str(DESAPARECIDO)
  ELSE IF Contains(SIAC_TEXT_NOT_REGISTERED, content) THEN Str(SEM_REGISTO)
  ELSE None

\* lines 271-274: the three tests on the content, in the order of the code;
\* None when none of them matches
SiacClassify(content) ==
  IF Contains(SIAC_TEXT_MISSING, content) THEN Str(DESAPARECIDO)
  ELSE IF Contains(SIAC_TEXT_REGISTERED, content) THEN Str(REGISTADO)
  ELSE IF Contains(SIAC_TEXT_NOT_REGISTERED, content) THEN Str(SEM_REGISTO)
  ELSE None

\* lines 331-343 of check_olx_km
KmClassify(o) ==
  IF o.km_val # None THEN o.km_val
  ELSE IF "moderated" \in o.content THEN Str(ERR_MODERATED)
  ELSE IF "inactive" \in o.content THEN Str(ERR_INACTIVE)
  ELSE IF "removed" \in o.content THEN Str(ERR_INACTIVE)
  ELSE None

\* line 415 of check_olx_location
LocationClassify(o) == o.location

\* lines 458-488 of check_rnt_rnal_only: detail page, then grid, then the
\* "not found" text
RnalClassify(o) ==
  IF o.details # None THEN o.details
  ELSE IF o.grid_res # None THEN o.grid_res
  ELSE IF "nao foram encontrados" \in o.content THEN Str(NAO_ENCONTRADO)
  ELSE None

\* "for attempt in range(retries + 1)" with one attempt more
RangeEnd_OneMore(r) == r + 2

\* "for attempt in range(retries + 1)": the loop runs while attempt is below
RangeEnd(r) == r + 1

\* "if attempt < retries" with the last attempt retried too
MoreAttempts_Always(a, r) == a <= r

\* "if attempt < retries": another attempt follows
MoreAttempts(a, r) == a < r

\* an except clause that handles timeouts only
Catches_TimeoutOnly(e) == e = "TimeoutError"

\* the bare "except:" of lines 278, 345, 417 and 490 handles every fault
Catches(e) == TRUE

Extractors ==
  {"check_siac_on_page", "check_olx_km", "check_olx_location",
   "check_rnt_rnal_only"}

\* the identifiers an extractor is called with
Idents == {Str(<<"1">>), Str(<<>>), Str(NAN)}

InitExtractor ==
  /\ fn \in Extractors
  /\ ident \in Idents
  /\ retries \in 0..MaxRetries
  /\ attempt = 0
  /\ xpc = "enter"
  /\ outcomes = <<>>
  /\ rnalRes = None
  /\ xret = None
  /\ SinkIdle
  /\ OrchestratorIdle
  /\ ClearIdle
  /\ CliIdle

Return(v) ==
  /\ xret' = v
  /\ xpc' = "done"
  /\ attempt' = attempt

Continue ==
  /\ attempt' = attempt + 1
  /\ xpc' = "try"
  /\ xret' = xret

Raise ==
  /\ xpc' = "raised"
  /\ attempt' = attempt
  /\ xret' = xret

\* the code before the loop: check_olx_location returns "N/A" for a blank
\* ad_id (line 352); check_rnt_rnal_only sets res (line 424)
Enter ==
  /\ xpc = "enter"
  /\ IF fn = "check_olx_location"
          /\ (ident.v = <<>> \/ Lower(ident.v) = NAN)
       THEN Return(Str(NA))
       ELSE xpc' = "try" /\ attempt' = attempt /\ xret' = xret
  /\ rnalRes' = IF fn = "check_rnt_rnal_only" THEN Str(SEM_DADOS) ELSE rnalRes
  /\ UNCHANGED <<fn, ident, retries, outcomes, mvars, svars, bvars, cvars>>

\* one attempt of check_siac_on_page, lines 253-280
SiacAttempt ==
  /\ fn = "check_siac_on_page"
  /\ xpc = "try"
  /\ attempt < RangeEnd(retries)
  /\ \E o \in SiacOutcomes :
       /\ outcomes' = Append(outcomes, o)
       /\ IF o.ty = "fault"
            THEN IF ~Catches(o.e) THEN Raise
                 ELSE IF MoreAttempts(attempt, retries) THEN Continue
                 ELSE Return(Str(ERRO))
            ELSE IF SiacClassify(o.content) # None
                   THEN Return(SiacClassify(o.content))
                 ELSE IF MoreAttempts(attempt, retries) THEN Continue
                 ELSE Return(Str(DESCONHECIDO))
  /\ UNCHANGED <<fn, ident, retries, rnalRes, mvars, svars, bvars, cvars>>

\* one attempt of check_olx_km, lines 291-347
OlxKmAttempt ==
  /\ fn = "check_olx_km"
  /\ xpc = "try"
  /\ attempt < RangeEnd(retries)
  /\ \E o \in KmOutcomes :
       /\ outcomes' = Append(outcomes, o)
       /\ IF o.ty = "fault"
            THEN IF ~Catches(o.e) THEN Raise
                 ELSE IF MoreAttempts(attempt, retries) THEN Continue
                 ELSE Return(Str(ERRO_CONEXAO))
            ELSE IF KmClassify(o) # None THEN Return(KmClassify(o))
                 ELSE IF MoreAttempts(attempt, retries) THEN Continue
                 ELSE Return(Str(ERR_NOT_FOUND))
  /\ UNCHANGED <<fn, ident, retries, rnalRes, mvars, svars, bvars, cvars>>

\* one attempt of check_olx_location, lines 360-419
OlxLocationAttempt ==
  /\ fn = "check_olx_location"
  /\ xpc = "try"
  /\ attempt < RangeEnd(retries)
  /\ \E o \in LocationOutcomes :
       /\ outcomes' = Append(outcomes, o)
       /\ IF o.ty = "fault"
            THEN IF ~Catches(o.e) THEN Raise
                 ELSE IF MoreAttempts(attempt, retries) THEN Continue
                 ELSE Return(Str(CONEXAO))
            ELSE IF LocationClassify(o) # None
                   THEN Return(LocationClassify(o))
                 ELSE IF MoreAttempts(attempt, retries) THEN Continue
                 ELSE Return(Str(LOCALIZACAO))
  /\ UNCHANGED <<fn, ident, retries, rnalRes, mvars, svars, bvars, cvars>>

\* one attempt of check_rnt_rnal_only, lines 427-493: a definitive page sets
\* res and breaks out of the loop (to "return res"); a fault on the last
\* attempt sets res to the error marker; otherwise res is left as it is
RnalAttempt ==
  /\ fn = "check_rnt_rnal_only"
  /\ xpc = "try"
  /\ attempt < RangeEnd(retries)
  /\ \E o \in RnalOutcomes :
       /\ outcomes' = Append(outcomes, o)
       /\ IF o.ty = "fault"
            THEN IF ~Catches(o.e) THEN Raise /\ rnalRes' = rnalRes
                 ELSE /\ Continue
                      /\ rnalRes' = IF MoreAttempts(attempt, retries)
                                      THEN rnalRes
                                      ELSE Str(ERRO_RNAL)
            ELSE IF RnalClassify(o) # None
                   THEN /\ rnalRes' = RnalClassify(o)
                        /\ Return(RnalClassify(o))
                   ELSE Continue /\ rnalRes' = rnalRes
  /\ UNCHANGED <<fn, ident, retries, mvars, svars, bvars, cvars>>

\* the loop is exhausted: "return res" of check_rnt_rnal_only (line 494),
\* the closing return of the other three (lines 281, 348, 420)
LoopEnd ==
  /\ xpc = "try"
  /\ attempt >= RangeEnd(retries)
  /\ Return(IF fn = "check_rnt_rnal_only" THEN rnalRes ELSE Str(ERRO))
  /\ UNCHANGED <<fn, ident, retries, outcomes, rnalRes, mvars, svars, bvars, cvars>>

NextExtractor ==
  \/ Enter
  \/ SiacAttempt
  \/ OlxKmAttempt
  \/ OlxLocationAttempt
  \/ RnalAttempt
  \/ LoopEnd

SpecExtractor == InitExtractor /\ [][NextExtractor]_vars

\* ================================================================ tabs
\* One run of a tab on its worksheet: the tab reads its seed from the
\* result column(s), process_list_incremental passes some indices, the
\* callback writes the list back, and the next run reads its seed again.
\* A worksheet is a record of columns; a column holds the cells of rows
\* 2, 3, ... (the header row is left out, as the "[1:]" of the code does).

\* what a cell of a result column can hold: nothing, the placeholder, a
\* result written by an earlier run
CellVals == {Str(<<>>), Str(DOTS), Str(<<"O", "K">>)}

\* what a cell of an identifier column can hold
IdCells == {Str(<<"1">>), Str(<<>>)}

\* ws.col_values(k)[1:]: the cells of a column down to its last non-empty one
RECURSIVE ColValues(_)
ColValues(col) ==
  IF col # <<>> /\ col[Len(col)] = Str(<<>>)
    THEN ColValues(SubSeq(col, 1, Len(col) - 1))
    ELSE col

\* ws.update(range_name = "X2:X{1 + len(values)}", values): the first
\* len(values) cells of the column are overwritten
Update(col, values) ==
  [j \in 1..(IF Len(values) > Len(col) THEN Len(values) ELSE Len(col)) |->
     IF j <= Len(values) THEN values[j] ELSE col[j]]

\* lst += ["..."] * (max_len - len(lst))
Pad(lst, max_len) ==
  lst \o [j \in 1..(max_len - Len(lst)) |-> Str(DOTS)]

\* lines 593-604: row by row, the female of the row (results in column I)
\* and then its offspring (results in column J), each if the row has one
RECURSIVE SiacSlotsFrom(_, _, _)
SiacSlotsFrom(r, lenF, lenC) ==
  IF r > lenF /\ r > lenC THEN <<>>
  ELSE (IF r <= lenF THEN <<[col |-> "I", row |-> r]>> ELSE <<>>)
         \o (IF r <= lenC THEN <<[col |-> "J", row |-> r]>> ELSE <<>>)
         \o SiacSlotsFrom(r + 1, lenF, lenC)

SiacSlots(sh) ==
  SiacSlotsFrom(1, Len(ColValues(sh.G)), Len(ColValues(sh.H)))

\* lines 587-604: interleaved, the identifiers of columns G and H
SiacItems(sh) ==
  LET slots == SiacSlots(sh)
  IN  [k \in 1..Len(slots) |->
         IF slots[k].col = "I" THEN sh.G[slots[k].row] ELSE sh.H[slots[k].row]]

\* lines 589-604: existing_results, from columns I and J, "..." where the
\* column ends before the row
SiacSeed(sh) ==
  LET slots == SiacSlots(sh)
  IN  [k \in 1..Len(slots) |->
         LET resCol == ColValues(sh[slots[k].col])
         IN  IF slots[k].row <= Len(resCol)
               THEN resCol[slots[k].row]
               ELSE Str(DOTS)]

\* lines 662-671: existing_val of the RNAL tab, column F padded with "..."
AlSeed(sh) == Pad(ColValues(sh.F), Len(sh.F))

\* lines 751-757: existing_val of the OLX tab, column E padded with "..."
CarsSeed(sh) == Pad(ColValues(sh.E), Len(sh.E))

Sinks == {"update_siac_gs", "update_al_gs", "update_cars_gs"}

SeedOf(sk, sh) ==
  IF sk = "update_siac_gs" THEN SiacSeed(sh)
  ELSE IF sk = "update_al_gs" THEN AlSeed(sh)
  ELSE CarsSeed(sh)

\* what cars_checker returns for a mileage of fewer than five digits
KM_WRONG == <<"k", "w">>
CarsResult == Tup(Str(KM), Str(KM_WRONG))

\* what update_al_gs writes into column F for a tuple whose locations share
\* no word
VAL_WRONG == <<"v", "w">>

\* the entry process_list_incremental assigns at index k (1-based) of a tab
NewResult(sk, sh, k) ==
  IF sk = "update_siac_gs"
    THEN IF IsBlank(SiacItems(sh)[k]) THEN Str(NA) ELSE Str(REGISTADO)
  ELSE IF sk = "update_al_gs" THEN TupleResult
  ELSE CarsResult

\* r[k] of Python: the component of a tuple, the character of a string;
\* None stands for IndexError
PyIndex(r, k) ==
  IF r.ty = "tuple" THEN r.v[k + 1]
  ELSE IF k < Len(r.v) THEN Str(<<r.v[k + 1]>>)
  ELSE None

\* the worksheets a tab can find, with n rows
SheetsOf(sk, n) ==
  IF sk = "update_siac_gs"
    THEN {sh \in [G : [1..n -> IdCells], H : [1..n -> IdCells],
                  I : [1..n -> CellVals], J : [1..n -> CellVals]] :
            ColValues(sh.G) # <<>> \/ ColValues(sh.H) # <<>>}
  ELSE IF sk = "update_al_gs"
    THEN [C : [1..n -> CellVals], E : [1..n -> CellVals],
          F : [1..n -> CellVals]]
  ELSE [D : [1..n -> CellVals], E : [1..n -> CellVals]]

InitSink ==
  /\ sink \in Sinks
  /\ \E n \in 1..MaxRows : sheet \in SheetsOf(sink, n)
  /\ sheet0 = sheet
  /\ seed = <<>>
  /\ seed0 = <<>>
  /\ upto = 0
  /\ store = <<>>
  /\ spc = "sheet"
  /\ ExtractorIdle
  /\ OrchestratorIdle
  /\ ClearIdle
  /\ CliIdle

\* the tab builds existing_results from the worksheet: at the start of the
\* run, and again at the start of the next run
ReadSeed ==
  /\ spc \in {"sheet", "flushed"}
  /\ seed' = SeedOf(sink, sheet)
  /\ seed0' = IF spc = "sheet" THEN SeedOf(sink, sheet) ELSE seed0
  /\ spc' = IF spc = "sheet" THEN "seeded" ELSE "reseeded"
  /\ UNCHANGED <<sink, sheet, sheet0, upto, store, mvars, xvars, bvars, cvars>>

\* process_list_incremental up to a callback call: after index p - 1 was
\* processed (line 559), or after the loop (line 561).  Every index below p
\* that had no result has been assigned one (line 557).
Process ==
  /\ spc = "seeded"
  /\ \E p \in 0..Len(seed) :
       /\ p = Len(seed) \/ (p >= 1 /\ ~HasResult(seed[p]))
       /\ upto' = p
       /\ store' = [j \in 1..Len(seed) |->
                      IF j <= p /\ ~HasResult(seed[j])
                        THEN NewResult(sink, sheet, j)
                        ELSE seed[j]]
  /\ spc' = "flush"
  /\ UNCHANGED <<sink, sheet, sheet0, seed, seed0, mvars, xvars, bvars, cvars>>

\* update_siac_gs, lines 606-619: the list is dealt back to columns I and J
\* in the order it was interleaved, "N/A" for a row without the animal
UpdateSiacGs ==
  /\ spc = "flush"
  /\ sink = "update_siac_gs"
  /\ LET slots == SiacSlots(sheet0)
         lenF == Len(ColValues(sheet0.G))
         lenC == Len(ColValues(sheet0.H))
         rows == IF lenF > lenC THEN lenF ELSE lenC
         At(c, r) ==
           store[CHOOSE k \in 1..Len(slots) : slots[k] = [col |-> c, row |-> r]]
         sf == [r \in 1..rows |-> IF r <= lenF THEN At("I", r) ELSE Str(NA)]
         sc == [r \in 1..rows |-> IF r <= lenC THEN At("J", r) ELSE Str(NA)]
     IN  sheet' = [sheet EXCEPT !.I = Update(@, sf), !.J = Update(@, sc)]
  /\ spc' = "flushed"
  /\ UNCHANGED <<sink, sheet0, seed, seed0, upto, store, mvars, xvars, bvars, cvars>>

\* update_al_gs, lines 673-698: r[0] goes to column C and r[1] to column E
\* for every entry r, string or tuple; column F gets a string entry as it is
\* and a validation for a tuple.  r[0] or r[1] of too short a string raises
\* IndexError before anything is written.
UpdateAlGs ==
  /\ spc = "flush"
  /\ sink = "update_al_gs"
  /\ IF \E j \in 1..Len(store) :
          PyIndex(store[j], 0) = None \/ PyIndex(store[j], 1) = None
       THEN /\ spc' = "raised"
            /\ sheet' = sheet
       ELSE /\ spc' = "flushed"
            /\ sheet' =
                 [sheet EXCEPT
                    !.C = Update(@, [j \in 1..Len(store) |-> PyIndex(store[j], 0)]),
                    !.E = Update(@, [j \in 1..Len(store) |-> PyIndex(store[j], 1)]),
                    !.F = Update(@, [j \in 1..Len(store) |->
                                       IF store[j].ty = "str"
                                         THEN store[j]
                                         ELSE Str(VAL_WRONG)])]
  /\ UNCHANGED <<sink, sheet0, seed, seed0, upto, store, mvars, xvars, bvars, cvars>>

\* update_cars_gs, lines 759-769: r[0] goes to column D and r[1] to column E
\* for every entry r, string or tuple
UpdateCarsGs ==
  /\ spc = "flush"
  /\ sink = "update_cars_gs"
  /\ IF \E j \in 1..Len(store) :
          PyIndex(store[j], 0) = None \/ PyIndex(store[j], 1) = None
       THEN /\ spc' = "raised"
            /\ sheet' = sheet
       ELSE /\ spc' = "flushed"
            /\ sheet' =
                 [sheet EXCEPT
                    !.D = Update(@, [j \in 1..Len(store) |-> PyIndex(store[j], 0)]),
                    !.E = Update(@, [j \in 1..Len(store) |-> PyIndex(store[j], 1)])]
  /\ UNCHANGED <<sink, sheet0, seed, seed0, upto, store, mvars, xvars, bvars, cvars>>

NextSink ==
  \/ ReadSeed
  \/ Process
  \/ UpdateSiacGs
  \/ UpdateAlGs
  \/ UpdateCarsGs

SpecSink == InitSink /\ [][NextSink]_vars


\* ================================================================ batch_clear_rows
\* A row is the list of its cells; rows[0] is the header.  Three columns
\* are kept of the worksheet: an identifier and the two result columns the
\* condition looks at (columns I and J, row[8] and row[9] of the code).
HEADER == <<Str(<<"i", "d">>), Str(<<"I">>), Str(<<"J">>)>>

DataRows ==
  {<<Str(id), Str(a), Str(b)>> :
     id \in {<<"1">>, <<"2">>},
     a \in {REGISTADO, <<" ">> \o REGISTADO, DOTS},
     b \in {REGISTADO, DOTS}}

\* is_siac_done, lines 638-641: both result cells are, stripped, the
\* "REGISTADO" marker; a row without those columns is not done
is_siac_done(row) ==
  /\ ~(Len(row) < 3)
  /\ Strip(row[2].v) = REGISTADO
  /\ Strip(row[3].v) = REGISTADO

\* lines 238-242: the rows for which condition_func is false, in order
RECURSIVE KeptRows(_)
KeptRows(rs) ==
  IF rs = <<>> THEN <<>>
  ELSE IF ~is_siac_done(Head(rs))
    THEN <<Head(rs)>> \o KeptRows(Tail(rs))
    ELSE KeptRows(Tail(rs))

\* lines 238-242: deleted_count after the loop
RECURSIVE DeletedCount(_)
DeletedCount(rs) ==
  IF rs = <<>> THEN 0
  ELSE (IF is_siac_done(Head(rs)) THEN 1 ELSE 0) + DeletedCount(Tail(rs))

\* a worksheet rewritten whether or not a row was deleted
WriteDue_Always(n) == TRUE

\* line 243: if deleted_count > 0
WriteDue(n) == n > 0

InitClear ==
  /\ data \in {<<>>} \cup
       {<<HEADER>> \o q : q \in UNION {[1..n -> DataRows] : n \in 0..MaxRows}}
  /\ ws = data
  /\ new_rows = <<>>
  /\ deleted_count = 0
  /\ wsWrites = 0
  /\ bpc = "start"
  /\ bret = -1
  /\ OrchestratorIdle
  /\ ExtractorIdle
  /\ SinkIdle
  /\ CliIdle

\* lines 234-243: no rows, return 0; else filter the data rows, and return
\* the count unless the worksheet is to be rewritten
Filter ==
  /\ bpc = "start"
  /\ IF data = <<>>
       THEN /\ bret' = 0
            /\ bpc' = "returned"
            /\ UNCHANGED <<new_rows, deleted_count>>
       ELSE /\ new_rows' = <<Head(data)>> \o KeptRows(Tail(data))
            /\ deleted_count' = DeletedCount(Tail(data))
            /\ IF WriteDue(DeletedCount(Tail(data)))
                 THEN bpc' = "clear" /\ bret' = bret
                 ELSE bpc' = "returned" /\ bret' = DeletedCount(Tail(data))
  /\ UNCHANGED <<data, ws, wsWrites, mvars, xvars, svars, cvars>>

\* line 244: ws.clear() empties the worksheet, or fails and raises
WsClear ==
  /\ bpc = "clear"
  /\ wsWrites' = wsWrites + 1
  /\ \E ok \in BOOLEAN :
       IF ok THEN ws' = <<>> /\ bpc' = "update"
             ELSE ws' = ws /\ bpc' = "raised"
  /\ UNCHANGED <<data, new_rows, deleted_count, bret, mvars, xvars, svars,
                 cvars>>

\* lines 245-246: ws.update(range_name = 'A1', values = new_rows) and the
\* return of deleted_count; or the update fails and raises
WsUpdate ==
  /\ bpc = "update"
  /\ wsWrites' = wsWrites + 1
  /\ \E ok \in BOOLEAN :
       IF ok THEN /\ ws' = new_rows
                  /\ bret' = deleted_count
                  /\ bpc' = "returned"
             ELSE /\ ws' = ws
                  /\ bret' = bret
                  /\ bpc' = "raised"
  /\ UNCHANGED <<data, new_rows, deleted_count, mvars, xvars, svars, cvars>>

NextClear ==
  \/ Filter
  \/ WsClear
  \/ WsUpdate

SpecClear == InitClear /\ [][NextClear]_vars

\* ================================================================ main.py
\* The values pandas hands over for the cells of the first column: an empty
\* cell is NaN, a number is an int or (in a column that holds an empty
\* cell) a float, anything else a string.
NaN == [ty |-> "nan"]

ChipVals ==
  {NaN,
   [ty |-> "int", v |-> <<"9">>],
   [ty |-> "float", v |-> <<"9">>],
   Str(<<"9", "x">>)}

\* line 78: str(int(chip)) if isinstance(chip, float) else str(chip); the
\* float 9.0 becomes "9" and not "9.0"
PyStr(chip) ==
  IF chip.ty = "float" THEN chip.v \o <<".", "0">>
  ELSE chip.v

ChipText(chip) ==
  IF chip.ty = "float" THEN PyStr([ty |-> "int", v |-> chip.v])
  ELSE PyStr(chip)

\* the three strings check_siac returns (lines 44, 46, 48)
VALIDO == <<"V">>
NAO_REGISTADO == <<"N", "R">>
ERRO_CONSULTA == <<"E">>

\* lines 43-48: the string returned for what the inner try met
QueryResult(outcome) ==
  IF outcome = "fault" THEN ERRO_CONSULTA
  ELSE IF outcome = "success_text" THEN VALIDO
  ELSE NAO_REGISTADO

Page(st, typed) == [ty |-> "page", st |-> st, typed |-> typed]

InitCli ==
  /\ microchips \in UNION {SeqsOf(ChipVals, n) : n \in 0..MaxItems}
  /\ chipIdx = 0
  /\ cliResults = <<>>
  /\ cliBrowser = "None"
  /\ cliPage = None
  /\ outFile = None
  /\ cpc = "start"
  /\ OrchestratorIdle
  /\ ExtractorIdle
  /\ SinkIdle
  /\ ClearIdle

\* lines 67-69: the browser and its context are opened; a failed launch
\* leaves main before any item is looked at
CliLaunch ==
  /\ cpc = "start"
  /\ \E ok \in BOOLEAN :
       IF ok THEN cliBrowser' = "open" /\ cpc' = "loop"
             ELSE cliBrowser' = cliBrowser /\ cpc' = "launch_failed"
  /\ UNCHANGED <<microchips, chipIdx, cliResults, cliPage, outFile, mvars,
                 xvars, svars, bvars>>

\* lines 72-78: the next item; an empty cell gets "N/A" without a query
CliLoop ==
  /\ cpc = "loop"
  /\ chipIdx < Len(microchips)
  /\ IF microchips[chipIdx + 1] = NaN
       THEN /\ cliResults' = Append(cliResults, NA)
            /\ chipIdx' = chipIdx + 1
            /\ cpc' = cpc
       ELSE /\ cpc' = "new_page"
            /\ UNCHANGED <<cliResults, chipIdx>>
  /\ UNCHANGED <<microchips, cliBrowser, cliPage, outFile, mvars, xvars,
                 svars, bvars>>

\* what is left when an exception leaves check_siac: main's loop has no
\* handler, so it leaves main through the async with of line 67, whose
\* exit stops Playwright and with it the browser; lines 81-105 do not run
CliRaise ==
  /\ cpc' = "raised"
  /\ cliBrowser' = "closed"
  /\ UNCHANGED <<microchips, chipIdx, cliResults, outFile>>

\* line 15: context.new_page(), outside every try
CliNewPage ==
  /\ cpc = "new_page"
  /\ \E ok \in BOOLEAN :
       IF ok
         THEN /\ cliPage' = Page("open", <<>>)
              /\ cpc' = "goto"
              /\ UNCHANGED <<microchips, chipIdx, cliResults, cliBrowser,
                             outFile>>
         ELSE /\ cliPage' = cliPage
              /\ CliRaise
  /\ UNCHANGED <<mvars, xvars, svars, bvars>>

\* line 17: page.goto(SITE_URL), inside the try of line 16, which has a
\* finally (line 50) and no except
CliGoto ==
  /\ cpc = "goto"
  /\ \E ok \in BOOLEAN :
       IF ok
         THEN /\ cpc' = "query"
              /\ UNCHANGED <<microchips, chipIdx, cliResults, cliBrowser,
                             cliPage, outFile>>
         ELSE /\ cliPage' = Page("closed", <<>>)
              /\ CliRaise
  /\ UNCHANGED <<mvars, xvars, svars, bvars>>

\* lines 19-50 and 79: the inner try types the number and reads the page,
\* or meets a fault, which its except turns into a string; the page is
\* closed and the string appended to results
CliQuery ==
  /\ cpc = "query"
  /\ \E outcome \in {"success_text", "other_text", "fault"} :
       /\ cliResults' = Append(cliResults, QueryResult(outcome))
       /\ cliPage' =
            Page("closed",
                 IF outcome = "fault" THEN <<>>
                 ELSE ChipText(microchips[chipIdx + 1]))
  /\ chipIdx' = chipIdx + 1
  /\ cpc' = "loop"
  /\ UNCHANGED <<microchips, cliBrowser, outFile, mvars, xvars, svars,
                 bvars>>

\* line 81: browser.close(), after the last item
CliBrowserClose ==
  /\ cpc = "loop"
  /\ chipIdx = Len(microchips)
  /\ cliBrowser' = "closed"
  /\ cpc' = "write"
  /\ UNCHANGED <<microchips, chipIdx, cliResults, cliPage, outFile, mvars,
                 xvars, svars, bvars>>

\* lines 84-105: the results column is written to the input file
CliWrite ==
  /\ cpc = "write"
  /\ outFile' = List(cliResults)
  /\ cpc' = "done"
  /\ UNCHANGED <<microchips, chipIdx, cliResults, cliBrowser, cliPage,
                 mvars, xvars, svars, bvars>>

NextCli ==
  \/ CliLaunch
  \/ CliLoop
  \/ CliNewPage
  \/ CliGoto
  \/ CliQuery
  \/ CliBrowserClose
  \/ CliWrite

SpecCli == InitCli /\ [][NextCli]_vars

\* ---------------------------------------------------------------- claims
\* the run has left process_list_incremental
Exited == pc \in {"returned", "aborted"}

\* existing_results was given (and is not empty) and has an entry for item k - 1
Seeded(k) ==
  /\ Truthy(args.existing_results)
  /\ k <= Len(args.existing_results.v)

\* the Unprocessed kind: the placeholder "..." or the empty string
Unprocessed(r) == r \in {Str(DOTS), Str(<<>>)}

\* a prior TransientError or UnknownOutcome, as check_siac_on_page returns them
PriorError(r) == r \in {Str(ERRO), Str(DESCONHECIDO)}

IsScenarioB ==
  /\ args.items = ScenarioBItems
  /\ args.existing_results \in {ScenarioBExisting, ScenarioBUnknown}

\* C1: for every index whose existing_results entry is terminal (any kind
\* other than Unprocessed), checker_func is never called for that item and
\* the returned list holds the entry unchanged.
C1_TerminalEntriesUntouched ==
  \A k \in 1..total :
    (Seeded(k) /\ ~Unprocessed(args.existing_results.v[k])) =>
      /\ calls[k] = 0
      /\ (pc = "returned" => results[k] = args.existing_results.v[k])

\* C2 as stated: on a resumed run an index whose entry is a prior
\* TransientError or UnknownOutcome is reprocessed, so that a run that
\* returns has called checker_func for every such (non-blank) item; in
\* Scenario B the calls are exactly those for indices 1, 2 and 3.
C2_PriorErrorsReprocessed ==
  pc = "returned" =>
    /\ \A k \in 1..total :
         (Seeded(k) /\ PriorError(args.existing_results.v[k])
            /\ ~IsBlank(args.items[k])) => calls[k] >= 1
    /\ IsScenarioB => calls = <<0, 1, 1, 1>>

\* C2 as amended: an index whose entry is a prior TransientError or
\* UnknownOutcome marker is skipped like every other entry that has a result:
\* checker_func is never called for it; in Scenario B a run that returns has
\* called checker_func for exactly indices 1 and 2.
C2_PriorErrorsSkipped ==
  /\ \A k \in 1..total :
       (Seeded(k) /\ PriorError(args.existing_results.v[k])) => calls[k] = 0
  /\ (IsScenarioB /\ pc = "returned") => calls = <<0, 1, 1, 0>>

\* C2 witness: a Scenario B run has returned, having processed indices 1, 2
C2_Witness ==
  /\ IsScenarioB
  /\ pc = "returned"
  /\ calls[2] = 1 /\ calls[3] = 1

\* C3: whenever a callback is supplied, the callback has been invoked one
\* last time with the final results on every exit from the function: on
\* return, and when the loop was left because checker_func, a browser
\* restart or an earlier callback call raised.
C3_FinalFlushOnEveryExit ==
  (/\ args.callback
   /\ inLoop
   /\ Exited
   /\ exc \in {"none", "CheckerError", "LaunchError", "NavError", "SinkError"}) =>
    /\ finalFlush
    /\ sinkArg = List(results)

\* C4: a callback call that raises does not abort the run: its exception
\* never propagates out of the loop or out of the function.
C4_SinkFailureNotFatal ==
  exc = "SinkError" => pc \notin {"raised", "aborted"}

C6_CrashRecycledAndRetried ==
  /\ (pc = "store" /\ diedAt = i) => calls[i + 1] = 2
  /\ (pc = "checking" /\ diedAt # -1) => diedAt = i

\* C7: a run aborts only when the browser launch failed both before and
\* after the install step; every other run returns.
C7_OnlyLaunchFailureAborts ==
  pc \in {"raised", "aborted"} => exc = "LaunchError"

\* C8: the returned list has exactly len(items) entries, and so has the list
\* at every callback invocation.
C8_LengthIsItemCount ==
  /\ pc = "returned" => Len(results) = total
  /\ sinkArg # None => Len(sinkArg.v) = total

\* C9: when existing_results is shorter than items the run does not fail on
\* the indices beyond it: they are processed like unprocessed items.
C9_ShortSeedIsUnprocessed ==
  /\ exc # "IndexError"
  /\ pc = "returned" =>
       \A k \in 1..total :
         (Truthy(args.existing_results) /\ k > Len(args.existing_results.v)) =>
           \/ calls[k] = 1
           \/ results[k] = Str(NA)

\* C10: with an existing_results in which every entry is terminal (strings
\* and tuple payloads alike), checker_func is never called and the returned
\* list equals existing_results.
C10_FullyTerminalIsIdempotent ==
  (/\ Truthy(args.existing_results)
   /\ \A k \in 1..Len(args.existing_results.v) :
        ~Unprocessed(args.existing_results.v[k])) =>
    /\ \A k \in 1..total : calls[k] = 0
    /\ (pc = "returned" => results = args.existing_results.v)

\* the list line 508 builds: what results holds before the loop
InitialResults ==
  IF Truthy(args.existing_results)
    THEN args.existing_results.v
    ELSE [k \in 1..total |-> Str(DOTS)]

\* the indices (0-based) line 557 has assigned
Written == {writes[k] : k \in 1..Len(writes)}

\* existing_results is k terminal entries followed by Unprocessed entries
TerminalPrefix(k) ==
  /\ Truthy(args.existing_results)
  /\ Len(args.existing_results.v) = total
  /\ \A j \in 1..k : ~Unprocessed(args.existing_results.v[j])
  /\ \A j \in (k + 1)..total : Unprocessed(args.existing_results.v[j])

\* C11: with an existing_results of k terminal entries (of any kinds)
\* followed by Unprocessed entries, a run over non-blank items that returns
\* has called checker_func never for the first k indices and once for each
\* later index: len(items) - k calls.
C11_ResumeCount ==
  (/\ pc = "returned"
   /\ \A j \in 1..total : ~IsBlank(args.items[j])) =>
    \A k \in 0..total :
      TerminalPrefix(k) =>
        \A j \in 1..total : calls[j] = IF j <= k THEN 0 ELSE 1

\* the normalized form of a scalar item (trimmed, a trailing ".0" removed)
\* is the empty string or "nan"
NormalizedBlank(val) ==
  /\ val.ty = "str"
  /\ Cleaned(val).v \in {<<>>, NAN}

\* C12: every item whose normalized form is empty or "nan" gets "N/A" and
\* no checker_func call, at every position; in Scenario A ("111", "nan",
\* "222") the calls are those for indices 0 and 2 and index 1 holds "N/A".
C12_BlankItemsNotApplicable ==
  /\ \A k \in 1..total :
       NormalizedBlank(args.items[k]) =>
         /\ calls[k] = 0
         /\ (k - 1) \in Written => results[k] = Str(NA)
  /\ (args.items = ScenarioAItems /\ pc = "returned") =>
       /\ calls = <<1, 0, 1>>
       /\ results[2] = Str(NA)

\* C13: with a callback and no index skipped, the callback has been invoked
\* once after each index i with (i + 1) % batch_size = 0 - i div batch_size
\* times when the loop is at index i - and once more after the loop:
\* len(items) div batch_size + 1 times in a run that returns, the last time
\* with a list whose len(items) entries are all decided (batch_size 2 and
\* the five items of Scenario C: 3 invocations).
C13_CheckpointCadence ==
  args.callback =>
    /\ (pc = "loop" /\ Len(writes) = i) => flushes = i \div args.batch_size
    /\ (pc = "returned" /\ Len(writes) = total) =>
         /\ flushes = (total \div args.batch_size) + 1
         /\ sinkArg = List(results)
         /\ \A k \in 1..total : ~Unprocessed(sinkArg.v[k])
    /\ (args.items = ScenarioCItems /\ args.batch_size = 2
          /\ Len(writes) = total /\ pc = "returned") => flushes = 3

\* C13 witness: Scenario C with batch_size 2 has returned after 3 invocations
C13_Witness ==
  /\ args.items = ScenarioCItems
  /\ Len(writes) = total
  /\ args.callback
  /\ args.batch_size = 2
  /\ pc = "returned"
  /\ flushes = 3

\* C14: the list an intermediate callback invocation receives, made after
\* index i with i + 1 a multiple of batch_size, has every index below i + 1
\* decided, every index that was skipped equal to its initial value, and
\* every index from i + 1 on equal to its initial value.
C14_IntermediateFlushContent ==
  (pc = "flushing" /\ ~finalFlush) =>
    /\ (i + 1) % args.batch_size = 0
    /\ i + 1 <= Len(sinkArg.v)
    /\ \A j \in 1..(i + 1) : ~Unprocessed(sinkArg.v[j])
    /\ \A j \in 1..(i + 1) :
         (j - 1) \notin Written => sinkArg.v[j] = InitialResults[j]
    /\ \A j \in (i + 2)..Len(sinkArg.v) : sinkArg.v[j] = InitialResults[j]

\* C14 witness: in Scenario B with batch_size 2 the callback is running
\* after index 1, index 0 having been skipped and indices 2, 3 still to come
C14_Witness ==
  /\ IsScenarioB
  /\ pc = "flushing"
  /\ ~finalFlush
  /\ i = 1
  /\ Written = {1}

C16_OneBrowserAtATime ==
  /\ nOpen <= 1
  /\ context = "open" => browser = "open"
  /\ page = "open" => context = "open"
  /\ pc = "ib_launch" =>
       /\ nOpen = 0
       /\ browser # "open" /\ context # "open" /\ page # "open"

\* C16 witness: a restart has launched the new browser
C16_Witness ==
  /\ recycledAt # {}
  /\ pc = "ib_page"
  /\ nOpen = 1

\* C17: an init_browser call, the first or a restart, whose launch fails
\* runs the install once and retries the launch once; when the retry fails
\* too the exception propagates: the run aborts, nothing more is launched or
\* installed.
C17_OneInstallOneRetry ==
  /\ tries <= 2 /\ installs <= 1
  /\ pc = "ib_page" =>
       \/ tries = 1 /\ installs = 0
       \/ tries = 2 /\ installs = 1
  /\ exc = "LaunchError" =>
       /\ tries = 2 /\ installs = 1
       /\ pc \in {"raised", "aborted"}
       /\ nOpen = 0

\* C17 witness: the relaunch of a restart failed twice and the run aborted
C17_Witness ==
  /\ pc = "aborted"
  /\ exc = "LaunchError"
  /\ recycledAt # {}
  /\ tries = 2 /\ installs = 1

\* C18: whenever checker_func is called, the browser in use - the first or
\* a restarted one - has the fixed user agent and, when init_url is given,
\* has made exactly one navigation to it (none otherwise).
C18_SessionPrepared ==
  pc = "checking" =>
    /\ userAgent
    /\ navs = IF args.init_url THEN 1 ELSE 0

\* C18 witness: checker_func is called on a restarted browser, init_url given
C18_Witness ==
  /\ pc = "checking"
  /\ recycledAt # {}
  /\ args.init_url
  /\ navs = 1

\* C19: results is assigned in strictly increasing index order, at most once
\* per index and only at the index being processed; the entry assigned is
\* that index's, and every entry not assigned holds its initial value.
C19_StoreWrittenInOrder ==
  /\ \A k \in 1..(Len(writes) - 1) : writes[k] < writes[k + 1]
  /\ \A k \in 1..Len(writes) : writes[k] < total /\ writes[k] <= i
  /\ pc # "start" =>
       /\ Len(results) = Len(InitialResults)
       /\ \A j \in 1..Len(results) :
            (j - 1) \notin Written => results[j] = InitialResults[j]
  /\ (pc \in {"flush", "flushing"} /\ ~finalFlush) =>
       /\ writes # <<>> /\ writes[Len(writes)] = i
       /\ results[i + 1] = res
  /\ (pc = "loop" /\ writes # <<>> /\ writes[Len(writes)] = i - 1) =>
       results[i] = res

\* C19 witness: a run that assigned two indices has returned
C19_Witness ==
  /\ pc = "returned"
  /\ Len(writes) >= 2

\* C20: at most one checker_func call or callback call is in progress, and
\* none is in progress when the loop is about to start one.
C20_OneCallAtATime ==
  /\ active \in {0, 1}
  /\ active = 1 <=> pc \in {"checking", "flushing"}
  /\ pc \in {"clean", "flush", "final"} => active = 0

\* C20 witness: a checker_func call is in progress after a completed flush
C20_Witness ==
  /\ pc = "checking"
  /\ flushes >= 1
  /\ active = 1

\* C21: the fraction reported is progress / len(items).  It stays inside
\* [0, 1]; after index i, skipped or processed, it is (i + 1) / len(items);
\* a run over a non-empty items that returns has reported 1 last; and the
\* reported value never decreases.
C21_ProgressMonotone ==
  /\ [](/\ progress \in 0..total
        /\ pc = "loop" => progress = i
        /\ (pc \in {"flush", "flushing"} /\ ~finalFlush) => progress = i + 1
        /\ (pc = "returned" /\ total > 0) => progress = total)
  /\ [][progress' >= progress]_vars

\* C21 witness: a run that skipped an index and processed another has
\* returned with the fraction at 1
C21_Witness ==
  /\ pc = "returned"
  /\ total >= 2
  /\ writes # <<>> /\ Len(writes) < total
  /\ progress = total

\* C28: in a run with a callback, fresh or resumed, the entries assigned
\* since the latest callback call never number more than batch_size.
C28_PendingBounded ==
  args.callback => pending <= args.batch_size

\* C29: in every run, fresh or resumed, the checker_func calls made on one
\* browser never number more than refresh_every.
C29_SessionCallsBounded ==
  sessionCalls <= args.refresh_every

\* C30: checker_func is never called with the empty string: a scalar item
\* whose cleaned value is empty (".0") gets "N/A" and no call.
C30_NoEmptyIdentifier ==
  /\ pc = "checking" => cleaned # Str(<<>>)
  /\ \A k \in 1..total :
       (args.items[k].ty = "str" /\ Cleaned(args.items[k]).v = <<>>) =>
         /\ calls[k] = 0
         /\ (k - 1) \in Written => results[k] = Str(NA)

\* the definitive result attempt outcome o gives extractor f; None when
\* the attempt faulted or its page was ambiguous
Classified(f, o) ==
  IF o.ty = "fault" THEN None
  ELSE IF f = "check_siac_on_page" THEN SiacClassify(o.content)
  ELSE IF f = "check_olx_km" THEN KmClassify(o)
  ELSE IF f = "check_olx_location" THEN LocationClassify(o)
  ELSE RnalClassify(o)

Definitive(o) == Classified(fn, o) # None

LastOutcome == outcomes[Len(outcomes)]

\* C22: an extractor called with retries = r >= 0 makes at most r + 1
\* attempts; every attempt but the latest was ambiguous or faulted (so none
\* follows a definitive one, and r + 1 are made only when the first r were
\* all ambiguous or faulted); and while it is still looping none was
\* definitive.
C22_AttemptsBounded ==
  /\ Len(outcomes) <= retries + 1
  /\ \A k \in 1..(Len(outcomes) - 1) : ~Definitive(outcomes[k])
  /\ xpc = "try" => \A k \in 1..Len(outcomes) : ~Definitive(outcomes[k])

\* C22 witness: an extractor with retries >= 1 has returned after using
\* every attempt, the last of them definitive
C22_Witness ==
  /\ xpc = "done"
  /\ retries >= 1
  /\ Len(outcomes) = retries + 1
  /\ Definitive(LastOutcome)

\* the UnknownOutcome and TransientError markers of the two extractors
UnknownMarker(f) ==
  IF f = "check_siac_on_page" THEN Str(DESCONHECIDO) ELSE Str(SEM_DADOS)

ErrorMarker(f) ==
  IF f = "check_siac_on_page" THEN Str(ERRO) ELSE Str(ERRO_RNAL)

\* C23: check_siac_on_page and check_rnt_rnal_only, having used all their
\* attempts without a definitive outcome, return the unknown marker when
\* the last attempt was ambiguous and the error marker when it faulted,
\* whatever the earlier attempts met.
C23_ExhaustedResultFromLastAttempt ==
  (/\ xpc = "done"
   /\ fn \in {"check_siac_on_page", "check_rnt_rnal_only"}
   /\ Len(outcomes) = retries + 1
   /\ ~Definitive(LastOutcome)) =>
    xret = IF LastOutcome.ty = "fault"
             THEN ErrorMarker(fn)
             ELSE UnknownMarker(fn)

\* C23 witness: check_rnt_rnal_only returned "Sem Dados" after a faulted
\* attempt followed by an ambiguous last one
C23_Witness ==
  /\ xpc = "done"
  /\ fn = "check_rnt_rnal_only"
  /\ retries >= 1
  /\ Len(outcomes) = retries + 1
  /\ outcomes[1].ty = "fault"
  /\ LastOutcome.ty = "page" /\ ~Definitive(LastOutcome)
  /\ xret = Str(SEM_DADOS)

C25_MostSpecificWins ==
  /\ Contains(SIAC_TEXT_REGISTERED, SIAC_TEXT_MISSING)
  /\ (/\ fn = "check_siac_on_page"
      /\ xpc = "done"
      /\ outcomes # <<>>
      /\ LastOutcome.ty = "page") =>
       LET c == LastOutcome.content
       IN  /\ Contains(SIAC_TEXT_MISSING, c) => xret = Str(DESAPARECIDO)
           /\ xret = Str(REGISTADO) =>
                /\ Contains(SIAC_TEXT_REGISTERED, c)
                /\ ~Contains(SIAC_TEXT_MISSING, c)
           /\ xret = Str(SEM_REGISTO) =>
                /\ Contains(SIAC_TEXT_NOT_REGISTERED, c)
                /\ ~Contains(SIAC_TEXT_REGISTERED, c)
                /\ ~Contains(SIAC_TEXT_MISSING, c)

\* C25 witness: a content with both the not-registered and the missing text
\* was classified missing
C25_Witness ==
  /\ fn = "check_siac_on_page"
  /\ xpc = "done"
  /\ outcomes # <<>>
  /\ LastOutcome = [ty |-> "page",
                    content |-> SIAC_TEXT_NOT_REGISTERED \o SIAC_TEXT_MISSING]
  /\ xret = Str(DESAPARECIDO)

\* the cells that hold what is persisted for index k (1-based) of a tab's
\* list, as <<column, row>> pairs
CellsOf(sk, sh, k) ==
  IF sk = "update_siac_gs"
    THEN {<<SiacSlots(sh)[k].col, SiacSlots(sh)[k].row>>}
  ELSE IF sk = "update_al_gs" THEN {<<"C", k>>, <<"E", k>>, <<"F", k>>}
  ELSE {<<"D", k>>, <<"E", k>>}

\* C26: after a flush by update_cars_gs, the seed the next OLX run reads
\* from column E is Unprocessed ("..." or empty) at every index the
\* interrupted run had not yet reached and had still to process.
C26_CarsSeedRoundTrip ==
  (sink = "update_cars_gs" /\ spc = "reseeded") =>
    \A j \in (upto + 1)..Len(seed0) :
      Unprocessed(seed0[j]) => Unprocessed(seed[j])

\* C27: after a flush by any of the three callbacks, the cells of every
\* index that the run skipped as already having a result hold what they
\* held before the run.
C27_SkippedRowsKeepCells ==
  spc = "flushed" =>
    \A j \in 1..Len(seed0) :
      HasResult(seed0[j]) =>
        \A c \in CellsOf(sink, sheet0, j) :
          sheet[c[1]][c[2]] = sheet0[c[1]][c[2]]

\* the data rows of a row list that the condition does not match
NotDone(row) == ~is_siac_done(row)

\* C31: when batch_clear_rows ends by raising from a worksheet call, the
\* worksheet still holds the header and every row that does not match the
\* condition.
C31_NoRowLostOnFailure ==
  bpc = "raised" =>
    /\ ws # <<>>
    /\ ws[1] = data[1]
    /\ \A k \in 2..Len(data) :
         NotDone(data[k]) => \E j \in 2..Len(ws) : ws[j] = data[k]

C32_WitnessNoWrite ==
  /\ bpc = "returned"
  /\ Len(data) = 3
  /\ bret = 0
  /\ wsWrites = 0

\* C33: when the command-line run has ended after a fault met while one
\* microchip was checked, results has one entry for every input microchip,
\* the browser is closed and the results are in the output file.
C33_ItemFaultsAbsorbed ==
  cpc \in {"done", "raised"} =>
    /\ Len(cliResults) = Len(microchips)
    /\ cliBrowser = "closed"
    /\ outFile = List(cliResults)

====
